---- MODULE Spec2Model ----
(***************************************************************************)
(* Token streaming relay of temporal-chat.                                 *)
(*                                                                         *)
(* The client side (hook useStreamingChat, component ChatInterface) is     *)
(* translated from frontend/src.  The server side (stream buffer held by   *)
(* the workflow, producer activity, relay loop of the SSE endpoint) is     *)
(* only documented: its loops are taken from README.md, the rest from the  *)
(* design document.                                                        *)
(*                                                                         *)
(* A JavaScript string is a sequence of one-character strings, so that     *)
(* startsWith, replace, trim and + are computed as the code computes them. *)
(* A fixed message text that is never parsed is one symbol.                *)
(* An optional field (error?, progress?, string | null) is <<>> when       *)
(* absent and <<s>> when it holds the string s.                            *)
(***************************************************************************)
EXTENDS Integers, Sequences, FiniteSets, TLC

VARIABLES
    messages,            \* useState<Message[]>            (hook, line 26)
    isStreaming,         \* useState(false)                (hook, line 27)
    error,               \* useState<string | null>(null)  (hook, line 28)
    eventSourceRef,      \* useRef<EventSource | null>: index into conns, 0 = null
    renderedIsStreaming, \* isStreaming as captured by the sendMessage closure
    conns,               \* the EventSource objects created so far, each with the
                         \* id its handlers close over and how it ended
    now,                 \* the last reading of Date.now()
    tokens,              \* StreamState.tokens
    status,              \* StreamState.status
    errorMessage,        \* StreamState.errorMessage
    phaseLabel,          \* StreamState.phaseLabel
    producer,            \* the producer activity: pc, batch being filled / flushed,
                         \* how many fragments of the batch being flushed are signalled
    relay,               \* the relay loop: seen_tokens, last phase sent, running
    sent,                \* every frame the relay has written, with its kind
    dispatched           \* how many frames of sent the browser has dispatched

clientVars == <<messages, isStreaming, error, eventSourceRef, renderedIsStreaming,
                conns, now>>
serverVars == <<tokens, status, errorMessage, phaseLabel, producer, relay, sent, dispatched>>
vars == <<messages, isStreaming, error, eventSourceRef, renderedIsStreaming,
          conns, now,
          tokens, status, errorMessage, phaseLabel, producer, relay, sent, dispatched>>

---------------------------------------------------------------------------
(* Bounds *)

MaxConns == 2      \* EventSource objects created in one run
MaxContent == 1    \* content frames dispatched in one run, when frames are arbitrary
MaxTokens == 3     \* chunks the generator yields in one run
MaxBatch == 2      \* batch_size ranges over 1..MaxBatch
MaxPhases == 1     \* setPhase calls in one run
MaxNearMiss == 2   \* content frames on the connection, when frames are near misses

---------------------------------------------------------------------------
(* Strings *)

None == <<>>
Some(s) == <<s>>

DONE == <<"_", "_", "D", "O", "N", "E", "_", "_">>
ERROR_PREFIX == <<"_", "_", "E", "R", "R", "O", "R", "_", "_", ":">>
STATUS_PREFIX == <<"_", "_", "S", "T", "A", "T", "U", "S", "_", "_", ":">>

WhiteSpace == {" ", "\t", "\n"}

StartsWith(s, p) == Len(s) >= Len(p) /\ SubSeq(s, 1, Len(p)) = p

\* position of the first occurrence of p in s, 0 when there is none
IndexOf(s, p) ==
    LET hits == {i \in 1..(Len(s) - Len(p) + 1) : SubSeq(s, i, i + Len(p) - 1) = p}
    IN  IF hits = {} THEN 0 ELSE CHOOSE i \in hits : \A j \in hits : i <= j

\* String.prototype.replace with a string pattern: the first occurrence only
Replace(s, p, r) ==
    LET i == IndexOf(s, p)
    IN  IF i = 0 THEN s
        ELSE SubSeq(s, 1, i - 1) \o r \o SubSeq(s, i + Len(p), Len(s))

\* String.prototype.trim
Trim(s) ==
    LET keep == {i \in 1..Len(s) : s[i] \notin WhiteSpace}
    IN  IF keep = {} THEN <<>>
        ELSE LET lo == CHOOSE i \in keep : \A j \in keep : i <= j
                 hi == CHOOSE i \in keep : \A j \in keep : i >= j
             IN  SubSeq(s, lo, hi)

QUERY_EMPTY == <<"Query cannot be empty">>
CONNECTION_ERROR == <<"Connection error">>
CONNECTION_ERROR_RETRY == <<"Connection error. Please try again.">>

---------------------------------------------------------------------------
(* Inputs *)

Queries == { <<>>, <<" ">>, <<"h", "i">> }

F_done == DONE
\* "__ERROR__: __ERROR__:x " : white space around the message, and the prefix
\* a second time inside it
F_error == ERROR_PREFIX \o <<" ">> \o ERROR_PREFIX \o <<"x", " ">>
F_status == STATUS_PREFIX \o <<" ", "s", " ">>
F_a == <<"a">>
F_b == <<" ">>

Frames == { F_done, F_error, F_status, F_a, F_b }

\* EventSource.readyState; the hook registers no onopen handler, so the step
\* from CONNECTING to OPEN is not a step of the model: a connection that is
\* not CLOSED stands for both
ReadyStates == {"CONNECTING", "CLOSED"}

---------------------------------------------------------------------------
(* Client: useStreamingChat *)

MapMessages(f(_), id) ==
    [i \in 1..Len(messages) |->
        IF messages[i].role = "assistant" /\ messages[i].id = id
        THEN f(messages[i]) ELSE messages[i]]

OpenConns == {c \in 1..Len(conns) : conns[c].readyState # "CLOSED"}

\* content frames dispatched so far, over all connections
ContentDispatched ==
    LET RECURSIVE Sum(_)
        Sum(c) == IF c = 0 THEN 0 ELSE conns[c].frames + Sum(c - 1)
    IN  Sum(Len(conns))

\* an EventSource: readyState and the assistantMessageId its handlers close
\* over are program state; the rest is history kept for the properties:
\* msgIdx, the place in messages of the assistant message its sendMessage call
\* added (0 once the list was cleared); recv, the content frames it has
\* dispatched, concatenated; frames, their number; outcome, how it ended
\* ("done", "error": a control frame; "ended", "failed": an error event with
\* readyState CLOSED, CONNECTING; "cleared": clearMessages)
NewConn(id, idx) ==
    [readyState |-> "CONNECTING", assistantMessageId |-> id, msgIdx |-> idx,
     recv |-> <<>>, frames |-> 0, outcome |-> "none"]

UserMessage(query, t) ==
    [id |-> t, role |-> "user", content |-> query,
     isStreaming |-> FALSE, error |-> None, progress |-> None]

AssistantMessage(t) ==
    [id |-> t, role |-> "assistant", content |-> <<>>,
     isStreaming |-> TRUE, error |-> None, progress |-> None]

\* faulty variant: if (!query) instead of if (!query.trim())
SendMessageUntrimmed(query, t) ==
    /\ IF renderedIsStreaming
       THEN UNCHANGED <<messages, isStreaming, error, eventSourceRef, conns, now>>
       ELSE IF query = <<>>
       THEN /\ error' = Some(QUERY_EMPTY)
            /\ UNCHANGED <<messages, isStreaming, eventSourceRef, conns, now>>
       ELSE /\ Len(conns) < MaxConns
            /\ messages' = messages \o <<UserMessage(query, t), AssistantMessage(t)>>
            /\ error' = None
            /\ isStreaming' = TRUE
            /\ conns' = Append(conns, NewConn(t, Len(messages) + 2))
            /\ eventSourceRef' = Len(conns) + 1
            /\ now' = t
    /\ UNCHANGED renderedIsStreaming

\* sendMessage, lines 31-159; the guard reads the isStreaming of the render
\* that created this callback (useCallback, dependency [isStreaming])
\* t is what Date.now() returns in this call
SendMessage(query, t) ==
    /\ IF renderedIsStreaming
       THEN UNCHANGED <<messages, isStreaming, error, eventSourceRef, conns, now>>
       ELSE IF Trim(query) = <<>>
       THEN /\ error' = Some(QUERY_EMPTY)
            /\ UNCHANGED <<messages, isStreaming, eventSourceRef, conns, now>>
       ELSE /\ Len(conns) < MaxConns
            /\ messages' = messages \o <<UserMessage(query, t), AssistantMessage(t)>>
            /\ error' = None
            /\ isStreaming' = TRUE
            /\ conns' = Append(conns, NewConn(t, Len(messages) + 2))
            /\ eventSourceRef' = Len(conns) + 1
            /\ now' = t
    /\ UNCHANGED renderedIsStreaming

\* a render commits: the component gets a sendMessage that closes over the
\* current isStreaming
Render ==
    /\ renderedIsStreaming # isStreaming
    /\ renderedIsStreaming' = isStreaming
    /\ UNCHANGED <<messages, isStreaming, error, eventSourceRef, conns, now>>

\* faulty variant: __DONE__ handled without eventSource.close()
OnDoneLeavesOpen(c) ==
    /\ messages' = MapMessages(
           LAMBDA m : [m EXCEPT !.isStreaming = FALSE, !.progress = None],
           conns[c].assistantMessageId)
    /\ isStreaming' = FALSE
    /\ conns' = [conns EXCEPT ![c].outcome = "done"]
    /\ UNCHANGED error

\* faulty variant: __DONE__ handled without progress: undefined
OnDoneKeepsProgress(c) ==
    /\ messages' = MapMessages(
           LAMBDA m : [m EXCEPT !.isStreaming = FALSE],
           conns[c].assistantMessageId)
    /\ isStreaming' = FALSE
    /\ conns' = [conns EXCEPT ![c].readyState = "CLOSED", ![c].outcome = "done"]
    /\ UNCHANGED error

\* onmessage, token === '__DONE__', lines 85-94
OnDone(c) ==
    /\ messages' = MapMessages(
           LAMBDA m : [m EXCEPT !.isStreaming = FALSE, !.progress = None],
           conns[c].assistantMessageId)
    /\ isStreaming' = FALSE
    /\ conns' = [conns EXCEPT ![c].readyState = "CLOSED", ![c].outcome = "done"]
    /\ UNCHANGED error

\* faulty variant: the error message is not trimmed
OnErrorFrameUntrimmed(c, token) ==
    LET errorMsg == Replace(token, ERROR_PREFIX, <<>>)
    IN  /\ messages' = MapMessages(
               LAMBDA m : [m EXCEPT !.error = Some(errorMsg), !.isStreaming = FALSE],
               conns[c].assistantMessageId)
        /\ error' = Some(errorMsg)
        /\ isStreaming' = FALSE
        /\ conns' = [conns EXCEPT ![c].readyState = "CLOSED", ![c].outcome = "error"]

\* faulty variant: the message stays marked as streaming
OnErrorFrameKeepsStreaming(c, token) ==
    LET errorMsg == Trim(Replace(token, ERROR_PREFIX, <<>>))
    IN  /\ messages' = MapMessages(
               LAMBDA m : [m EXCEPT !.error = Some(errorMsg)],
               conns[c].assistantMessageId)
        /\ error' = Some(errorMsg)
        /\ isStreaming' = FALSE
        /\ conns' = [conns EXCEPT ![c].readyState = "CLOSED", ![c].outcome = "error"]

\* faulty variant: the error branch also sets progress: undefined
OnErrorFrameClearsProgress(c, token) ==
    LET errorMsg == Trim(Replace(token, ERROR_PREFIX, <<>>))
    IN  /\ messages' = MapMessages(
               LAMBDA m : [m EXCEPT !.error = Some(errorMsg), !.isStreaming = FALSE,
                                    !.progress = None],
               conns[c].assistantMessageId)
        /\ error' = Some(errorMsg)
        /\ isStreaming' = FALSE
        /\ conns' = [conns EXCEPT ![c].readyState = "CLOSED", ![c].outcome = "error"]

\* onmessage, token.startsWith('__ERROR__:'), lines 97-108
OnErrorFrame(c, token) ==
    LET errorMsg == Trim(Replace(token, ERROR_PREFIX, <<>>))
    IN  /\ messages' = MapMessages(
               LAMBDA m : [m EXCEPT !.error = Some(errorMsg), !.isStreaming = FALSE],
               conns[c].assistantMessageId)
        /\ error' = Some(errorMsg)
        /\ isStreaming' = FALSE
        /\ conns' = [conns EXCEPT ![c].readyState = "CLOSED", ![c].outcome = "error"]

\* faulty variant: the progress label is also appended to content
OnStatusTouchesContent(c, token) ==
    LET progressMsg == Trim(Replace(token, STATUS_PREFIX, <<>>))
    IN  /\ messages' = MapMessages(
               LAMBDA m : [m EXCEPT !.progress = Some(progressMsg),
                                    !.content = @ \o progressMsg],
               conns[c].assistantMessageId)
        /\ UNCHANGED <<isStreaming, error, conns>>

\* onmessage, token.startsWith('__STATUS__:'), lines 111-119
OnStatus(c, token) ==
    LET progressMsg == Trim(Replace(token, STATUS_PREFIX, <<>>))
    IN  /\ messages' = MapMessages(
               LAMBDA m : [m EXCEPT !.progress = Some(progressMsg)],
               conns[c].assistantMessageId)
        /\ UNCHANGED <<isStreaming, error, conns>>

\* faulty variant: a content frame leaves the progress label in place
OnContentKeepsProgress(c, token) ==
    /\ messages' = MapMessages(
           LAMBDA m : [m EXCEPT !.content = @ \o token],
           conns[c].assistantMessageId)
    /\ conns' = [conns EXCEPT ![c].recv = @ \o token, ![c].frames = @ + 1]
    /\ UNCHANGED <<isStreaming, error>>

\* faulty variant: token + msg.content
OnContentPrepends(c, token) ==
    /\ messages' = MapMessages(
           LAMBDA m : [m EXCEPT !.content = token \o @, !.progress = None],
           conns[c].assistantMessageId)
    /\ conns' = [conns EXCEPT ![c].recv = @ \o token, ![c].frames = @ + 1]
    /\ UNCHANGED <<isStreaming, error>>

\* onmessage, any other token, lines 121-126
OnContent(c, token) ==
    /\ messages' = MapMessages(
           LAMBDA m : [m EXCEPT !.content = @ \o token, !.progress = None],
           conns[c].assistantMessageId)
    /\ conns' = [conns EXCEPT ![c].recv = @ \o token, ![c].frames = @ + 1]
    /\ UNCHANGED <<isStreaming, error>>

\* faulty variant: the sentinels are looked for anywhere in the data, and the
\* colon of the prefixes is not required
OnMessageLooseMatch(c, token) ==
    /\ conns[c].readyState # "CLOSED"
    /\ IF IndexOf(token, DONE) # 0 THEN OnDone(c)
       ELSE IF IndexOf(token, SubSeq(ERROR_PREFIX, 1, Len(ERROR_PREFIX) - 1)) # 0
       THEN OnErrorFrame(c, token)
       ELSE IF IndexOf(token, SubSeq(STATUS_PREFIX, 1, Len(STATUS_PREFIX) - 1)) # 0
       THEN OnStatus(c, token)
       ELSE OnContent(c, token)
    /\ UNCHANGED <<eventSourceRef, renderedIsStreaming, now>>

\* eventSource.onmessage, lines 81-127; an EventSource that was closed
\* dispatches nothing
OnMessage(c, token) ==
    /\ conns[c].readyState # "CLOSED"
    /\ IF token = DONE THEN OnDone(c)
       ELSE IF StartsWith(token, ERROR_PREFIX) THEN OnErrorFrame(c, token)
       ELSE IF StartsWith(token, STATUS_PREFIX) THEN OnStatus(c, token)
       ELSE OnContent(c, token)
    /\ UNCHANGED <<eventSourceRef, renderedIsStreaming, now>>

\* faulty variant: readyState is not looked at, every error event is a failure
OnErrorAlwaysFails(c, rs) ==
    /\ conns[c].readyState # "CLOSED"
    /\ rs \in {"CONNECTING", "CLOSED"}
    /\ error' = Some(CONNECTION_ERROR_RETRY)
    /\ messages' = MapMessages(
           LAMBDA m : [m EXCEPT !.isStreaming = FALSE, !.error = Some(CONNECTION_ERROR)],
           conns[c].assistantMessageId)
    /\ isStreaming' = FALSE
    /\ conns' = [conns EXCEPT ![c].readyState = "CLOSED",
                              ![c].outcome = IF rs = "CLOSED" THEN "ended" ELSE "failed"]
    /\ UNCHANGED <<eventSourceRef, renderedIsStreaming, now>>

\* faulty variant: onerror without setIsStreaming(false)
OnErrorLeavesHookStreaming(c, rs) ==
    /\ conns[c].readyState # "CLOSED"
    /\ rs \in {"CONNECTING", "CLOSED"}
    /\ IF rs = "CLOSED"
       THEN /\ messages' = MapMessages(
                   LAMBDA m : [m EXCEPT !.isStreaming = FALSE],
                   conns[c].assistantMessageId)
            /\ UNCHANGED error
       ELSE /\ error' = Some(CONNECTION_ERROR_RETRY)
            /\ messages' = MapMessages(
                   LAMBDA m : [m EXCEPT !.isStreaming = FALSE,
                                        !.error = Some(CONNECTION_ERROR)],
                   conns[c].assistantMessageId)
    /\ conns' = [conns EXCEPT ![c].readyState = "CLOSED",
                              ![c].outcome = IF rs = "CLOSED" THEN "ended" ELSE "failed"]
    /\ UNCHANGED <<isStreaming, eventSourceRef, renderedIsStreaming, now>>

\* eventSource.onerror, lines 130-156; rs is eventSource.readyState when the
\* error event fires: CLOSED when the browser failed the connection,
\* CONNECTING when it is about to reconnect
OnError(c, rs) ==
    /\ conns[c].readyState # "CLOSED"
    /\ rs \in {"CONNECTING", "CLOSED"}
    /\ IF rs = "CLOSED"
       THEN /\ messages' = MapMessages(
                   LAMBDA m : [m EXCEPT !.isStreaming = FALSE],
                   conns[c].assistantMessageId)
            /\ UNCHANGED error
       ELSE /\ error' = Some(CONNECTION_ERROR_RETRY)
            /\ messages' = MapMessages(
                   LAMBDA m : [m EXCEPT !.isStreaming = FALSE,
                                        !.error = Some(CONNECTION_ERROR)],
                   conns[c].assistantMessageId)
    /\ isStreaming' = FALSE
    /\ conns' = [conns EXCEPT ![c].readyState = "CLOSED",
                              ![c].outcome = IF rs = "CLOSED" THEN "ended" ELSE "failed"]
    /\ UNCHANGED <<eventSourceRef, renderedIsStreaming, now>>

\* faulty variant: the list is reset without eventSourceRef.current.close()
ClearMessagesLeavesOpen ==
    /\ conns' = [c \in 1..Len(conns) |->
                    [conns[c] EXCEPT
                        !.outcome = IF c = eventSourceRef \/ @ # "none" THEN "cleared" ELSE @,
                        !.msgIdx = 0]]
    /\ eventSourceRef' = 0
    /\ messages' = <<>>
    /\ error' = None
    /\ isStreaming' = FALSE
    /\ UNCHANGED <<renderedIsStreaming, now>>

\* clearMessages, lines 161-171
ClearMessages ==
    /\ conns' = [c \in 1..Len(conns) |->
                    [conns[c] EXCEPT
                        !.readyState = IF c = eventSourceRef THEN "CLOSED" ELSE @,
                        !.outcome = IF c = eventSourceRef \/ @ # "none" THEN "cleared" ELSE @,
                        !.msgIdx = 0]]
    /\ eventSourceRef' = 0
    /\ messages' = <<>>
    /\ error' = None
    /\ isStreaming' = FALSE
    /\ UNCHANGED <<renderedIsStreaming, now>>

---------------------------------------------------------------------------
(* Client: ChatInterface *)

\* the Send button: disabled={isStreaming || !query.trim()}; the query input is
\* disabled={isStreaming}; both read the isStreaming of the committed render
SendDisabled(query) == renderedIsStreaming \/ Trim(query) = <<>>

\* faulty variant: the Clear Chat button has no disabled={isStreaming}
ClearDisabledWhenEmptyOnly == messages = <<>>

\* the Clear Chat button: rendered when messages.length > 0, disabled={isStreaming}
ClearDisabled == renderedIsStreaming \/ messages = <<>>

\* handleSubmit; query is the text of the input when the form is submitted
HandleSubmit(query, t) ==
    IF Trim(query) = <<>>
    THEN UNCHANGED clientVars
    ELSE SendMessage(query, t)

\* a render is due for state set in a React event handler (onSubmit, onClick):
\* React commits it before the browser dispatches the next event
CommitDue == isStreaming /\ ~renderedIsStreaming

---------------------------------------------------------------------------
(* The hook under any caller and any frames *)

InitClient ==
    /\ messages = <<>>
    /\ isStreaming = FALSE
    /\ error = None
    /\ eventSourceRef = 0
    /\ renderedIsStreaming = FALSE
    /\ conns = <<>>
    /\ now = 0

InitServer ==
    /\ tokens = <<>>
    /\ status = "RUNNING"
    /\ errorMessage = None
    /\ phaseLabel = None
    /\ producer = [pc |-> "idle", batch_size |-> 0, batch |-> <<>>,
                   flushed |-> 0, yielded |-> 0, phases |-> 0]
    /\ relay = [seen_tokens |-> 0, phase |-> None, running |-> FALSE]
    /\ sent = <<>>
    /\ dispatched = 0

Init == InitClient /\ InitServer

\* Date.now() in a call of sendMessage: the reading of the call before, or
\* a later one (only the equality of two readings matters)
Readings == IF conns = <<>> THEN {now} ELSE {now, now + 1}

IsContent(f) ==
    f # DONE /\ ~StartsWith(f, ERROR_PREFIX) /\ ~StartsWith(f, STATUS_PREFIX)

FrameArrives(c, f) ==
    /\ IsContent(f) => ContentDispatched < MaxContent
    /\ OnMessage(c, f)

Next ==
    \/ \E q \in Queries, t \in Readings : SendMessage(q, t) /\ UNCHANGED serverVars
    \/ \E q \in Queries, t \in Readings : HandleSubmit(q, t) /\ UNCHANGED serverVars
    \/ Render /\ UNCHANGED serverVars
    \/ ClearMessages /\ UNCHANGED serverVars
    \/ \E c \in 1..Len(conns), f \in Frames : FrameArrives(c, f) /\ UNCHANGED serverVars
    \/ \E c \in 1..Len(conns), rs \in ReadyStates : OnError(c, rs) /\ UNCHANGED serverVars

Spec == Init /\ [][Next]_vars

\* the stream of connection c ends: a __DONE__ frame, an __ERROR__: frame or
\* an error event
TerminalEvent(c) ==
    /\ c <= Len(conns)
    /\ \/ OnMessage(c, F_done)
       \/ OnMessage(c, F_error)
       \/ \E rs \in ReadyStates : OnError(c, rs)
    /\ UNCHANGED serverVars

\* the hook under any caller, with the frames that end a turn, one progress
\* frame and one content frame
LiveFrames == { F_done, F_error, F_status, F_a }

LiveNext ==
    \/ \E t \in Readings : SendMessage(<<"h", "i">>, t) /\ UNCHANGED serverVars
    \/ Render /\ UNCHANGED serverVars
    \/ ClearMessages /\ UNCHANGED serverVars
    \/ \E c \in 1..Len(conns), f \in LiveFrames : FrameArrives(c, f) /\ UNCHANGED serverVars
    \/ \E c \in 1..Len(conns), rs \in ReadyStates : OnError(c, rs) /\ UNCHANGED serverVars

HookSpec == Init /\ [][LiveNext]_vars

\* every open connection ends, and a render that is due is committed
LiveSpec ==
    /\ Init /\ [][LiveNext]_vars
    /\ WF_vars(Render /\ UNCHANGED serverVars)
    /\ \A c \in 1..MaxConns : WF_vars(TerminalEvent(c))

---------------------------------------------------------------------------
(* The hook as ChatInterface drives it *)

UINext ==
    \/ \E q \in Queries, t \in Readings :
          /\ ~CommitDue
          /\ ~SendDisabled(q)
          /\ HandleSubmit(q, t)
          /\ UNCHANGED serverVars
    \/ /\ ~CommitDue
       /\ ~ClearDisabled
       /\ ClearMessages
       /\ UNCHANGED serverVars
    \/ Render /\ UNCHANGED serverVars
    \/ \E c \in 1..Len(conns), f \in Frames :
          ~CommitDue /\ FrameArrives(c, f) /\ UNCHANGED serverVars
    \/ \E c \in 1..Len(conns), rs \in ReadyStates :
          ~CommitDue /\ OnError(c, rs) /\ UNCHANGED serverVars

UISpec == Init /\ [][UINext]_vars

---------------------------------------------------------------------------
(* One connection that receives frames close to the sentinels *)

N_doneExtra == DONE \o <<"x">>                          \* "__DONE__x"
N_doneNotFirst == <<" ">> \o DONE                       \* " __DONE__"
N_errorNoColon == SubSeq(ERROR_PREFIX, 1, Len(ERROR_PREFIX) - 1)    \* "__ERROR__"
N_statusNoColon == SubSeq(STATUS_PREFIX, 1, Len(STATUS_PREFIX) - 1) \* "__STATUS__"
N_errorNotFirst == <<"x">> \o ERROR_PREFIX \o <<"y">>   \* "x__ERROR__:y"

NearMisses == { N_doneExtra, N_doneNotFirst, N_errorNoColon, N_statusNoColon,
                N_errorNotFirst }

SentinelFrames == { F_done, F_error, F_status } \cup NearMisses

SentinelFrameArrives(c, f) ==
    /\ IsContent(f) => conns[c].frames < MaxNearMiss
    /\ OnMessage(c, f)

SentinelNext ==
    \/ conns = <<>> /\ SendMessage(<<"h", "i">>, now) /\ UNCHANGED serverVars
    \/ Render /\ UNCHANGED serverVars
    \/ \E c \in 1..Len(conns), f \in SentinelFrames :
          SentinelFrameArrives(c, f) /\ UNCHANGED serverVars
    \/ \E c \in 1..Len(conns), rs \in ReadyStates : OnError(c, rs) /\ UNCHANGED serverVars

SentinelSpec == Init /\ [][SentinelNext]_vars

---------------------------------------------------------------------------
(* Server: stream buffer, producer, relay *)

Chunks == { F_a, F_b, F_done }
Labels == { <<"s">> }
FailureMessages == { <<"n", "o">>, <<" ", "n", "o", " ">> }

Frame(kind, data) == [kind |-> kind, data |-> data]

\* signal receive_token: one fragment is appended; a terminal buffer rejects it
ReceiveToken(token) ==
    IF status = "RUNNING"
    THEN /\ tokens' = Append(tokens, token)
         /\ phaseLabel' = None
         /\ UNCHANGED <<status, errorMessage>>
    ELSE UNCHANGED <<tokens, status, errorMessage, phaseLabel>>

\* setPhase(label): legal while RUNNING, overwrites the label
BufferSetPhase(label) ==
    IF status = "RUNNING"
    THEN /\ phaseLabel' = Some(label)
         /\ UNCHANGED <<tokens, status, errorMessage>>
    ELSE UNCHANGED <<tokens, status, errorMessage, phaseLabel>>

\* faulty variant: complete() does not look at the status
BufferCompleteFromAnyStatus ==
    /\ status' = "COMPLETED"
    /\ UNCHANGED <<tokens, errorMessage, phaseLabel>>

\* complete(): RUNNING -> COMPLETED
BufferComplete ==
    /\ status' = IF status = "RUNNING" THEN "COMPLETED" ELSE status
    /\ UNCHANGED <<tokens, errorMessage, phaseLabel>>

\* fail(message): RUNNING -> FAILED
BufferFail(message) ==
    /\ IF status = "RUNNING"
       THEN status' = "FAILED" /\ errorMessage' = Some(message)
       ELSE UNCHANGED <<status, errorMessage>>
    /\ UNCHANGED <<tokens, phaseLabel>>

\* the producer reports a phase
SetPhase(label) ==
    /\ status = "RUNNING"
    /\ producer.pc \in {"gen", "flush"}
    /\ producer.phases < MaxPhases
    /\ BufferSetPhase(label)
    /\ producer' = [producer EXCEPT !.phases = @ + 1]
    /\ UNCHANGED <<relay, sent, dispatched>>

\* async for chunk in stream_completion: batch.append(chunk.content)
Yield(chunk) ==
    /\ producer.pc = "gen"
    /\ producer.yielded < MaxTokens
    /\ producer' = [producer EXCEPT
                       !.batch = Append(@, chunk),
                       !.yielded = @ + 1,
                       !.pc = IF Len(producer.batch) + 1 >= producer.batch_size
                              THEN "flush" ELSE "gen"]
    /\ UNCHANGED <<tokens, status, errorMessage, phaseLabel, relay, sent, dispatched>>

\* for token in batch: await handle.signal("receive_token", token)
FlushOne ==
    /\ producer.pc \in {"flush", "final"}
    /\ producer.batch # <<>>
    /\ ReceiveToken(Head(producer.batch))
    /\ producer' = [producer EXCEPT
                       !.batch = Tail(@),
                       !.flushed = IF Len(producer.batch) = 1 THEN 0 ELSE @ + 1,
                       !.pc = IF Len(producer.batch) = 1 /\ producer.pc = "flush"
                              THEN "gen" ELSE @]
    /\ UNCHANGED <<relay, sent, dispatched>>

\* the generator is exhausted: what is left of the batch is flushed
GeneratorEnds ==
    /\ producer.pc = "gen"
    /\ producer' = [producer EXCEPT !.pc = "final"]
    /\ UNCHANGED <<tokens, status, errorMessage, phaseLabel, relay, sent, dispatched>>

\* the generator completed and the last batch is flushed: complete()
Complete ==
    /\ producer.pc = "final"
    /\ producer.batch = <<>>
    /\ BufferComplete
    /\ producer' = [producer EXCEPT !.pc = "done"]
    /\ UNCHANGED <<relay, sent, dispatched>>

\* the generator raises: fail(message)
Fail(message) ==
    /\ producer.pc = "gen"
    /\ BufferFail(message)
    /\ producer' = [producer EXCEPT !.pc = "done", !.batch = <<>>]
    /\ UNCHANGED <<relay, sent, dispatched>>

\* faulty variant: new_tokens = state.tokens, every poll sends the fragments
\* from the first
RelayPollResendsAll ==
    LET progress == IF phaseLabel # relay.phase /\ phaseLabel # None
                    THEN <<Frame("progress", STATUS_PREFIX \o phaseLabel[1])>>
                    ELSE <<>>
        content == [i \in 1..Len(tokens) |-> Frame("content", tokens[i])]
        control == IF status = "COMPLETED" THEN <<Frame("done", DONE)>>
                   ELSE IF status = "FAILED"
                   THEN <<Frame("error", ERROR_PREFIX \o errorMessage[1])>>
                   ELSE <<>>
    IN  /\ relay.running
        /\ sent' = sent \o progress \o content \o control
        /\ relay' = [seen_tokens |-> Len(tokens), phase |-> phaseLabel,
                     running |-> status = "RUNNING"]
        /\ UNCHANGED <<tokens, status, errorMessage, phaseLabel, producer, dispatched>>

\* one round of the relay loop: state = query get_stream_state;
\* new_tokens = state.tokens[seen_tokens:]; yield each
RelayPoll ==
    LET progress == IF phaseLabel # relay.phase /\ phaseLabel # None
                    THEN <<Frame("progress", STATUS_PREFIX \o phaseLabel[1])>>
                    ELSE <<>>
        content == [i \in 1..(Len(tokens) - relay.seen_tokens) |->
                       Frame("content", tokens[relay.seen_tokens + i])]
        control == IF status = "COMPLETED" THEN <<Frame("done", DONE)>>
                   ELSE IF status = "FAILED"
                   THEN <<Frame("error", ERROR_PREFIX \o errorMessage[1])>>
                   ELSE <<>>
    IN  /\ relay.running
        /\ sent' = sent \o progress \o content \o control
        /\ relay' = [seen_tokens |-> Len(tokens), phase |-> phaseLabel,
                     running |-> status = "RUNNING"]
        /\ UNCHANGED <<tokens, status, errorMessage, phaseLabel, producer, dispatched>>

\* GET /api/chat: the workflow is started and the relay loop begins
StartWorkflow(b) ==
    /\ producer' = [producer EXCEPT !.pc = "gen", !.batch_size = b]
    /\ relay' = [relay EXCEPT !.running = TRUE]
    /\ UNCHANGED <<tokens, status, errorMessage, phaseLabel, sent, dispatched>>

\* the browser dispatches the next frame of the stream to onmessage
Deliver ==
    /\ dispatched < Len(sent)
    /\ dispatched' = dispatched + 1
    /\ OnMessage(1, sent[dispatched + 1].data)
    /\ UNCHANGED <<tokens, status, errorMessage, phaseLabel, producer, relay, sent>>

---------------------------------------------------------------------------
(* The buffer under any sequence of its operations *)

BufferNext ==
    \/ \E ch \in Chunks :
          /\ Len(tokens) < MaxTokens
          /\ ReceiveToken(ch)
          /\ UNCHANGED <<clientVars, producer, relay, sent, dispatched>>
    \/ \E l \in Labels :
          BufferSetPhase(l) /\ UNCHANGED <<clientVars, producer, relay, sent, dispatched>>
    \/ BufferComplete /\ UNCHANGED <<clientVars, producer, relay, sent, dispatched>>
    \/ \E m \in FailureMessages :
          BufferFail(m) /\ UNCHANGED <<clientVars, producer, relay, sent, dispatched>>

BufferSpec == Init /\ [][BufferNext]_vars

---------------------------------------------------------------------------
(* One question, from the producer to the message on screen *)

RelayNext ==
    \/ \E b \in 1..MaxBatch :
          /\ conns = <<>>
          /\ SendMessage(<<"h", "i">>, now)
          /\ StartWorkflow(b)
    \/ Render /\ UNCHANGED serverVars
    \/ \E l \in Labels : SetPhase(l) /\ UNCHANGED clientVars
    \/ \E ch \in Chunks : Yield(ch) /\ UNCHANGED clientVars
    \/ FlushOne /\ UNCHANGED clientVars
    \/ GeneratorEnds /\ UNCHANGED clientVars
    \/ Complete /\ UNCHANGED clientVars
    \/ \E m \in FailureMessages : Fail(m) /\ UNCHANGED clientVars
    \/ RelayPoll /\ UNCHANGED clientVars
    \/ Deliver

RelaySpec == Init /\ [][RelayNext]_vars

---------------------------------------------------------------------------
(* Properties of the hook *)

\* the assistant message that the sendMessage call of connection c created
HasTurnMessage(c) == conns[c].msgIdx # 0
TurnMessage(c) == messages[conns[c].msgIdx]
TurnMessageAfter(c) == messages'[conns[c].msgIdx]

\* what follows the first n characters of a frame
Remainder(f, n) == SubSeq(f, n + 1, Len(f))

\* C2: the content of the assistant message of the current turn is the
\* concatenation, in arrival order, of the content frames received on that
\* turn's connection
C2_ContentIsFramesOfTurn ==
    (eventSourceRef # 0 /\ HasTurnMessage(eventSourceRef))
        => TurnMessage(eventSourceRef).content = conns[eventSourceRef].recv

\* C4: once a connection has processed __DONE__ or an __ERROR__: frame, none
\* of its later frames or error events is handled
C4_TerminalIsFinal ==
    [][\A c \in 1..Len(conns) :
          conns[c].outcome \in {"done", "error"}
              => /\ \A f \in Frames : ~OnMessage(c, f)
                 /\ \A rs \in ReadyStates : ~OnError(c, rs)]_vars

C4_Witness ==
    /\ Len(conns) = 2
    /\ conns[1].outcome \in {"done", "error"}
    /\ conns[1].readyState = "CLOSED"
    /\ conns[2].readyState # "CLOSED"
    /\ conns[2].frames > 0

\* C5: at most one EventSource is open at any time
C5_AtMostOneOpen == Cardinality(OpenConns) <= 1

DoneEffect(c) ==
    /\ isStreaming' = FALSE
    /\ conns'[c].readyState = "CLOSED"
    /\ Len(messages') = Len(messages)
    /\ HasTurnMessage(c) =>
          /\ TurnMessageAfter(c).isStreaming = FALSE
          /\ TurnMessageAfter(c).progress = None
          /\ TurnMessageAfter(c).content = TurnMessage(c).content
          /\ TurnMessageAfter(c).error = TurnMessage(c).error

\* C6: a __DONE__ frame marks the turn's message not streaming, clears its
\* progress, sets the hook's isStreaming to false and closes the connection;
\* content and error stay
C6_DoneFrame ==
    [][\A c \in 1..Len(conns) : OnMessage(c, DONE) => DoneEffect(c)]_vars

C6_Witness ==
    \E c \in 1..Len(conns) :
        /\ conns[c].outcome = "done"
        /\ HasTurnMessage(c)
        /\ TurnMessage(c).content # <<>>
        /\ ~TurnMessage(c).isStreaming
        /\ ~isStreaming

ErrorEffect(c, f) ==
    LET m == Trim(Remainder(f, Len(ERROR_PREFIX)))
    IN  /\ error' = Some(m)
        /\ isStreaming' = FALSE
        /\ conns'[c].readyState = "CLOSED"
        /\ Len(messages') = Len(messages)
        /\ HasTurnMessage(c) =>
              /\ TurnMessageAfter(c).error = Some(m)
              /\ TurnMessageAfter(c).isStreaming = FALSE
              /\ TurnMessageAfter(c).content = TurnMessage(c).content

\* C7: an __ERROR__: frame sets the message's and the hook's error to the
\* trimmed remainder, marks both not streaming and closes the connection;
\* content stays
C7_ErrorFrame ==
    [][\A c \in 1..Len(conns), f \in Frames :
          (StartsWith(f, ERROR_PREFIX) /\ OnMessage(c, f)) => ErrorEffect(c, f)]_vars

C7_Witness ==
    \E c \in 1..Len(conns) :
        /\ conns[c].outcome = "error"
        /\ HasTurnMessage(c)
        /\ TurnMessage(c).error = Some(ERROR_PREFIX \o <<"x">>)
        /\ TurnMessage(c).content # <<>>
        /\ error = Some(ERROR_PREFIX \o <<"x">>)

StatusEffect(c, f) ==
    /\ isStreaming' = isStreaming
    /\ error' = error
    /\ conns' = conns
    /\ Len(messages') = Len(messages)
    /\ HasTurnMessage(c) =>
          /\ TurnMessageAfter(c).progress = Some(Trim(Remainder(f, Len(STATUS_PREFIX))))
          /\ TurnMessageAfter(c).content = TurnMessage(c).content
          /\ TurnMessageAfter(c).error = TurnMessage(c).error
          /\ TurnMessageAfter(c).isStreaming = TurnMessage(c).isStreaming

\* C8: a __STATUS__: frame sets the message's progress to the trimmed
\* remainder and changes nothing else
C8_StatusFrame ==
    [][\A c \in 1..Len(conns), f \in Frames :
          (StartsWith(f, STATUS_PREFIX) /\ OnMessage(c, f)) => StatusEffect(c, f)]_vars

C8_Witness ==
    \E c \in 1..Len(conns) :
        /\ conns[c].readyState # "CLOSED"
        /\ HasTurnMessage(c)
        /\ TurnMessage(c).progress = Some(<<"s">>)
        /\ TurnMessage(c).content # <<>>
        /\ TurnMessage(c).isStreaming

ContentEffect(c, f) ==
    /\ isStreaming' = isStreaming
    /\ error' = error
    /\ conns'[c].readyState = conns[c].readyState
    /\ Len(messages') = Len(messages)
    /\ HasTurnMessage(c) =>
          /\ TurnMessageAfter(c).content = TurnMessage(c).content \o f
          /\ TurnMessageAfter(c).progress = None
          /\ TurnMessageAfter(c).error = TurnMessage(c).error
          /\ TurnMessageAfter(c).isStreaming = TurnMessage(c).isStreaming

TransportErrorEffect(c, rs) ==
    /\ isStreaming' = FALSE
    /\ conns'[c].readyState = "CLOSED"
    /\ Len(messages') = Len(messages)
    /\ rs = "CLOSED" => error' = error
    /\ rs # "CLOSED" => error' = Some(CONNECTION_ERROR_RETRY)
    /\ HasTurnMessage(c) =>
          /\ TurnMessageAfter(c).isStreaming = FALSE
          /\ TurnMessageAfter(c).content = TurnMessage(c).content
          /\ rs = "CLOSED" => TurnMessageAfter(c).error = TurnMessage(c).error
          /\ rs # "CLOSED" => TurnMessageAfter(c).error = Some(CONNECTION_ERROR)

C11_NearMissIsContent ==
    [][\A c \in 1..Len(conns), f \in SentinelFrames :
          OnMessage(c, f) =>
              /\ f \in NearMisses =>
                    /\ ContentEffect(c, f)
                    /\ conns'[c].outcome = "none"
                    /\ conns'[c].recv = conns[c].recv \o f
              /\ conns'[c].readyState = "CLOSED" =>
                    (f = DONE \/ StartsWith(f, ERROR_PREFIX))
              /\ (/\ HasTurnMessage(c)
                  /\ TurnMessageAfter(c).progress # None
                  /\ TurnMessageAfter(c).progress # TurnMessage(c).progress) =>
                    StartsWith(f, STATUS_PREFIX)]_vars

C11_Witness ==
    /\ Len(conns) = 1
    /\ conns[1].readyState # "CLOSED"
    /\ conns[1].outcome = "none"
    /\ TurnMessage(1).content = N_doneExtra \o N_errorNoColon
    /\ TurnMessage(1).isStreaming
    /\ TurnMessage(1).error = None
    /\ TurnMessage(1).progress = None
    /\ isStreaming
    /\ error = None

\* C15: through ChatInterface, while isStreaming is true no question is
\* submitted and the chat is not cleared: no connection is created, no message
\* is added or removed and the current connection is not replaced or dropped
C15_OnlyAtMessageBoundaries ==
    [][isStreaming =>
          /\ Len(conns') = Len(conns)
          /\ Len(messages') = Len(messages)
          /\ eventSourceRef' = eventSourceRef]_vars

C15_Witness ==
    /\ Len(conns) = 2
    /\ conns[1].outcome = "done"
    /\ conns[2].readyState # "CLOSED"
    /\ conns[2].frames > 0
    /\ Cardinality(OpenConns) = 1
    /\ isStreaming /\ renderedIsStreaming
    /\ Len(messages) = 4

C17_EmptyQuery ==
    [][\A q \in Queries, t \in Readings :
          Trim(q) = <<>> =>
              /\ (~renderedIsStreaming /\ SendMessage(q, t)) =>
                    /\ error' = Some(QUERY_EMPTY)
                    /\ UNCHANGED <<messages, isStreaming, eventSourceRef, conns>>
              /\ HandleSubmit(q, t) => UNCHANGED clientVars]_vars

C17_Witness ==
    /\ error = Some(QUERY_EMPTY)
    /\ Len(conns) = 1
    /\ conns[1].outcome = "done"
    /\ Len(messages) = 2
    /\ ~isStreaming
    /\ OpenConns = {}

\* the turn of connection c is over and the hook takes a new question
TurnOver(c) ==
    /\ Len(conns) >= c
    /\ conns[c].readyState = "CLOSED"
    /\ ~isStreaming
    /\ ~renderedIsStreaming
    /\ HasTurnMessage(c) => ~TurnMessage(c).isStreaming

\* C18: every accepted sendMessage is eventually followed by a state where
\* the hook and the turn's message are not streaming and a sendMessage with
\* a non-empty query is accepted, given that the connection ends with
\* __DONE__, an __ERROR__: frame or an error event
C18_NoTurnStuck == \A c \in 1..MaxConns : (Len(conns) >= c) ~> TurnOver(c)

C18_Witness ==
    /\ Len(conns) = 2
    /\ conns[1].outcome = "failed"
    /\ conns[2].outcome = "error"
    /\ conns[2].frames > 0
    /\ TurnOver(1) /\ TurnOver(2)
    /\ HasTurnMessage(1) /\ HasTurnMessage(2)

\* C19: the hook's isStreaming is true exactly when an EventSource of the
\* hook is open
C19_StreamingIffOpen == isStreaming <=> OpenConns # {}

\* every message but the assistant message of the turn of connection c is
\* left as it is
OthersUnchanged(c) ==
    /\ Len(messages') = Len(messages)
    /\ \A i \in 1..Len(messages) : i # conns[c].msgIdx => messages'[i] = messages[i]

\* C20: a frame or an error event of a connection modifies only the
\* assistant message that its sendMessage call created
C20_OnlyOwnMessage ==
    [][\A c \in 1..Len(conns) :
          /\ \A f \in Frames : OnMessage(c, f) => OthersUnchanged(c)
          /\ \A rs \in ReadyStates : OnError(c, rs) => OthersUnchanged(c)]_vars

\* no message is added or removed and every message keeps its progress
ProgressKept ==
    /\ Len(messages') = Len(messages)
    /\ \A i \in 1..Len(messages) : messages'[i].progress = messages[i].progress

\* C21: an __ERROR__: frame and an error event leave the progress of every
\* message as it is, so a label set by a __STATUS__: frame is still there
\* when the turn has ended in error; a label is removed from a message of
\* the list only by a content frame or by __DONE__
C21_ErrorsKeepProgress ==
    [][/\ \A c \in 1..Len(conns) :
             /\ \A f \in Frames :
                   (StartsWith(f, ERROR_PREFIX) /\ OnMessage(c, f)) => ProgressKept
             /\ \A rs \in ReadyStates : OnError(c, rs) => ProgressKept
       /\ \A i \in 1..Len(messages) :
             (/\ Len(messages') = Len(messages)
              /\ messages[i].progress # None
              /\ messages'[i].progress = None) =>
                 \E c \in 1..Len(conns), f \in Frames :
                     (f = DONE \/ IsContent(f)) /\ OnMessage(c, f)]_vars

C21_Witness ==
    /\ Len(conns) = 2
    /\ conns[1].outcome = "error"
    /\ conns[2].outcome = "failed"
    /\ HasTurnMessage(1) /\ HasTurnMessage(2)
    /\ TurnMessage(1).progress = Some(<<"s">>)
    /\ TurnMessage(2).progress = Some(<<"s">>)
    /\ ~TurnMessage(1).isStreaming /\ ~TurnMessage(2).isStreaming
    /\ TurnMessage(1).error # None /\ TurnMessage(2).error = Some(CONNECTION_ERROR)
    /\ ~isStreaming

---------------------------------------------------------------------------
(* Properties of one question, end to end *)

Flatten(ss) ==
    LET RECURSIVE Cat(_)
        Cat(i) == IF i = 0 THEN <<>> ELSE Cat(i - 1) \o ss[i]
    IN  Cat(Len(ss))

FramesOfKind(k) == LET Is(fr) == fr.kind = k IN SelectSeq(sent, Is)
ContentSent == [i \in 1..Len(FramesOfKind("content")) |-> FramesOfKind("content")[i].data]

\* no fragment in the buffer has the shape of a control frame
NoReservedToken == \A i \in 1..Len(tokens) : IsContent(tokens[i])

RelayEnded(st) == status = st /\ ~relay.running
ClientEnded(o) == conns # <<>> /\ conns[1].outcome = o

DeliveredInOrder ==
    /\ ContentSent = SubSeq(tokens, 1, relay.seen_tokens)
    /\ RelayEnded("COMPLETED") =>
          /\ ContentSent = tokens
          /\ Len(FramesOfKind("done")) = 1
          /\ Len(FramesOfKind("error")) = 0
          /\ sent[Len(sent)].kind = "done"
    /\ ClientEnded("done") =>
          /\ dispatched = Len(sent)
          /\ conns[1].frames = Len(tokens)
          /\ TurnMessage(1).content = Flatten(tokens)
          /\ ~TurnMessage(1).isStreaming

\* C1 as claimed: for every sequence of fragments followed by complete(), the
\* relay writes exactly the fragments, in append order, then one __DONE__,
\* and the message content ends as their concatenation
C1_Delivery == DeliveredInOrder

\* C1 as amended: the same, for fragments that are not themselves __DONE__
\* and start with neither __ERROR__: nor __STATUS__:
C1_DeliveryOfContent == NoReservedToken => DeliveredInOrder

C1_Witness ==
    /\ ClientEnded("done")
    /\ tokens = <<F_a, F_b, F_a>>
    /\ TurnMessage(1).content = <<"a", " ", "a">>
    /\ sent[Len(sent)].kind = "done"

FailureDelivered(m) ==
    /\ RelayEnded("FAILED") =>
          /\ ContentSent = tokens
          /\ Len(FramesOfKind("error")) = 1
          /\ Len(FramesOfKind("done")) = 0
          /\ sent[Len(sent)] = Frame("error", ERROR_PREFIX \o errorMessage[1])
    /\ status = "FAILED" => ~ClientEnded("done")
    /\ ClientEnded("error") =>
          /\ dispatched = Len(sent)
          /\ conns[1].frames = Len(tokens)
          /\ TurnMessage(1).content = Flatten(tokens)
          /\ TurnMessage(1).error = Some(m)
          /\ ~TurnMessage(1).isStreaming

\* C3 as claimed: after fail(m) with K fragments appended the client gets the
\* K content frames, one __ERROR__:m frame and no __DONE__; the message ends
\* with the K fragments as content, error = m, not streaming
C3_Failure == status = "FAILED" => FailureDelivered(errorMessage[1])

\* C3 as amended: the same for fragments that have not the shape of a control
\* frame, with error = m trimmed
C3_FailureOfContent ==
    (status = "FAILED" /\ NoReservedToken) => FailureDelivered(Trim(errorMessage[1]))

C3_Witness ==
    /\ ClientEnded("error")
    /\ Len(tokens) = 2
    /\ Len(FramesOfKind("progress")) = 1
    /\ errorMessage = Some(<<" ", "n", "o", " ">>)
    /\ TurnMessage(1).error = Some(<<"n", "o">>)
    /\ TurnMessage(1).content = Flatten(tokens)

---------------------------------------------------------------------------
(* Properties of the buffer, the producer and the relay *)

\* C12: status starts RUNNING, moves at most once, to COMPLETED or to FAILED,
\* and never changes once terminal, whatever operations follow
C12_StatusMonotone ==
    /\ status = "RUNNING"
    /\ [][/\ status = "RUNNING" => status' \in {"RUNNING", "COMPLETED", "FAILED"}
          /\ status # "RUNNING" => status' = status]_vars

C12_Witness ==
    /\ status = "FAILED"
    /\ errorMessage = Some(<<"n", "o">>)
    /\ Len(tokens) = 2
    /\ phaseLabel = Some(<<"s">>)

ContentIn(frames) ==
    LET Is(fr) == fr.kind = "content"
        sel == SelectSeq(frames, Is)
    IN  [i \in 1..Len(sel) |-> sel[i].data]

\* C13: the relay's cursor never decreases and never exceeds the number of
\* fragments in the buffer; a poll emits exactly tokens[old cursor : count]
C13_CursorMonotone ==
    [][/\ relay'.seen_tokens >= relay.seen_tokens
       /\ relay'.seen_tokens <= Len(tokens')
       /\ RelayPoll =>
             /\ relay'.seen_tokens = Len(tokens)
             /\ ContentIn(sent') =
                   ContentIn(sent) \o SubSeq(tokens, relay.seen_tokens + 1, Len(tokens))]_vars

C13_Witness ==
    /\ Len(sent) = 3
    /\ sent[1].kind = "content"
    /\ sent[2].kind = "progress"
    /\ sent[3].kind = "content"
    /\ relay.seen_tokens = 2
    /\ Len(tokens) = 3

\* C14: no snapshot of the relay is taken while some but not all fragments
\* of a batch are in the buffer
C14_BatchAtomic == [][RelayPoll => producer.flushed = 0]_vars

====
